---------------------------- MODULE Spec2Model ----------------------------
(***************************************************************************)
(* A model of SublimeTmpl (src/sublime-tmpl.py): the settings merger, the  *)
(* template format registry, the token substitution engine, the file and   *)
(* directory generators and the save listener.                             *)
(*                                                                         *)
(* Text is a sequence of one-character strings.  A Python dict whose       *)
(* iteration order matters (attr) is a sequence of <<key, value>> pairs;   *)
(* a settings dict is a TLA+ function whose DOMAIN holds its keys.         *)
(***************************************************************************)
EXTENDS Integers, Sequences, FiniteSets, TLC

VARIABLES
    subst,      \* one call of create_from_template: its arguments and its dest
    mget,       \* one call of MergedSettings.get: the settings, the arguments, the result
    reg,        \* one call of get_template_locations: the settings, filterBy, the result
    host,       \* the host's settings now: [global |-> dict, project |-> dict]
    file_cmd,   \* the SublimeTmplCommand object: its cached settings and template_locations
    dir_cmd,    \* the SublimeTmplDirectoryCommand object: the same two attributes
    views,      \* the tabs opened by the file command: content and view settings
    disk,       \* the directories and files made by the directory command
    log,        \* what the last command did, in order: dialogs, prints, file I/O, raises
    last        \* the last command: its arguments, the format it resolved, how it ended

pureVars == <<subst, mget, reg>>
hostVars == <<host, file_cmd, dir_cmd, views, disk, log, last>>
vars == <<subst, mget, reg, host, file_cmd, dir_cmd, views, disk, log, last>>

-----------------------------------------------------------------------------
(* Bounds of the model                                                     *)

\* longest source line of the substitution engine, in segments
MaxSegs == 2

\* most format descriptors of the project's template_formats
MaxFormats == 2

\* most location descriptors of template_locations, project and global together
MaxLocations == 2

\* most tabs the file command opens
MaxViews == 1

-----------------------------------------------------------------------------
(* Characters and text                                                     *)

CR == "\r"
BS == "\\"
Digits == {"0", "1", "2", "3", "4", "5", "6", "7", "8", "9"}

RECURSIVE Flatten(_)
\* the concatenation of a sequence of texts
Flatten(ss) == IF ss = <<>> THEN <<>> ELSE Head(ss) \o Flatten(Tail(ss))

\* the characters of s
Chars(s) == {s[i] : i \in 1..Len(s)}

\* t occurs in s at index i
OccursAt(s, t, i) ==
    /\ i >= 1
    /\ i + Len(t) - 1 <= Len(s)
    /\ \A j \in 1..Len(t) : s[i + j - 1] = t[j]

RECURSIVE ReplaceFrom(_, _, _, _)
ReplaceFrom(s, old, new, i) ==
    IF i > Len(s) THEN <<>>
    ELSE IF OccursAt(s, old, i)
         THEN new \o ReplaceFrom(s, old, new, i + Len(old))
         ELSE <<s[i]>> \o ReplaceFrom(s, old, new, i + 1)

\* a mutant of str_replace: only the first occurrence is replaced
str_replace_first(s, old, new) ==
    IF \E i \in 1..Len(s) : OccursAt(s, old, i)
    THEN LET i == CHOOSE k \in 1..Len(s) :
                    /\ OccursAt(s, old, k)
                    /\ \A m \in 1..(k - 1) : ~OccursAt(s, old, m)
         IN  SubSeq(s, 1, i - 1) \o new \o SubSeq(s, i + Len(old), Len(s))
    ELSE s

\* Python's str.replace(old, new): every non-overlapping occurrence, leftmost
\* first; an empty old matches before every character and at the end
str_replace(s, old, new) ==
    IF old = <<>>
    THEN Flatten([i \in 1..Len(s) |-> new \o <<s[i]>>]) \o new
    ELSE ReplaceFrom(s, old, new, 1)

\* line.replace('\r', '')
StripCR(s) == str_replace(s, <<CR>>, <<>>)

-----------------------------------------------------------------------------
(* MergedSettings                                                          *)
(* settings = [global |-> dict, project |-> dict]; an optional value is    *)
(* None (the empty tuple) or Some(v) (the tuple of v alone).               *)

None == <<>>
Some(v) == <<v>>

\* dict.get(name, default), default an optional value
DictGet(dict, name, default) ==
    IF name \in DOMAIN dict THEN Some(dict[name]) ELSE default

\* MergedSettings.get_global
get_global(settings, name, default) == DictGet(settings.global, name, default)

\* MergedSettings.get_project
get_project(settings, name, default) == DictGet(settings.project, name, default)

\* a mutant of MergedSettings_get: the global list comes first
MergedSettings_get_global_first(settings, name, default, merge) ==
    IF merge /\ default # None
    THEN Some(get_global(settings, name, default)[1]
              \o DictGet(settings.project, name, Some(<<>>))[1])
    ELSE DictGet(settings.project, name, get_global(settings, name, default))

\* MergedSettings.get(name, default=None, merge=False)
MergedSettings_get(settings, name, default, merge) ==
    IF merge /\ default # None
    THEN Some(DictGet(settings.project, name, Some(<<>>))[1]
              \o get_global(settings, name, default)[1])
    ELSE DictGet(settings.project, name, get_global(settings, name, default))

-----------------------------------------------------------------------------
(* os.path on POSIX paths, as text                                         *)

SEP == "/"

RECURSIVE LastSepFrom(_, _)
LastSepFrom(p, i) ==
    IF i = 0 THEN 0 ELSE IF p[i] = SEP THEN i ELSE LastSepFrom(p, i - 1)

\* the index of the last separator of p, 0 if it has none
LastSep(p) == LastSepFrom(p, Len(p))

RECURSIVE RStripSep(_)
RStripSep(p) ==
    IF p # <<>> /\ p[Len(p)] = SEP THEN RStripSep(SubSeq(p, 1, Len(p) - 1)) ELSE p

\* os.path.dirname
dirname(p) ==
    LET head == SubSeq(p, 1, LastSep(p))
    IN  IF head # <<>> /\ Chars(head) # {SEP} THEN RStripSep(head) ELSE head

\* os.path.basename
basename(p) == SubSeq(p, LastSep(p) + 1, Len(p))

RECURSIVE SplitFrom(_, _, _)
\* the segments of p between separators, empty ones dropped
SplitFrom(p, i, cur) ==
    IF i > Len(p) THEN (IF cur = <<>> THEN <<>> ELSE <<cur>>)
    ELSE IF p[i] = SEP
         THEN (IF cur = <<>> THEN <<>> ELSE <<cur>>) \o SplitFrom(p, i + 1, <<>>)
         ELSE SplitFrom(p, i + 1, Append(cur, p[i]))
SplitPath(p) == SplitFrom(p, 1, <<>>)

RECURSIVE JoinSegs(_)
\* the segments joined with separators
JoinSegs(segs) ==
    IF segs = <<>> THEN <<>>
    ELSE IF Len(segs) = 1 THEN Head(segs)
    ELSE Head(segs) \o <<SEP>> \o JoinSegs(Tail(segs))

Dot == <<".">>
DotDot == <<".", ".">>

RECURSIVE Collapse(_, _, _)
\* the segments with "." dropped and ".." taking back the segment before it
Collapse(segs, done, absolute) ==
    IF segs = <<>> THEN done
    ELSE IF Head(segs) = Dot THEN Collapse(Tail(segs), done, absolute)
    ELSE IF Head(segs) = DotDot
         THEN IF done # <<>> /\ done[Len(done)] # DotDot
              THEN Collapse(Tail(segs), SubSeq(done, 1, Len(done) - 1), absolute)
              ELSE IF absolute THEN Collapse(Tail(segs), done, absolute)
              ELSE Collapse(Tail(segs), Append(done, DotDot), absolute)
    ELSE Collapse(Tail(segs), Append(done, Head(segs)), absolute)

IsAbs(p) == p # <<>> /\ p[1] = SEP

\* os.path.normpath
normpath(p) ==
    LET segs == Collapse(SplitPath(p), <<>>, IsAbs(p))
    IN  IF IsAbs(p) THEN <<SEP>> \o JoinSegs(segs)
        ELSE IF segs = <<>> THEN Dot ELSE JoinSegs(segs)

\* os.getcwd() of the plugin host
Cwd == <<SEP>>

\* os.path.join(a, b)
join(a, b) ==
    IF IsAbs(b) THEN b
    ELSE IF a = <<>> \/ a[Len(a)] = SEP THEN a \o b
    ELSE a \o <<SEP>> \o b

\* os.path.abspath
abspath(p) == normpath(IF IsAbs(p) THEN p ELSE join(Cwd, p))

\* the length of the longest common prefix of two segment lists
CommonLen(a, b) ==
    CHOOSE n \in 0..Len(a) :
        /\ n <= Len(b)
        /\ \A i \in 1..n : a[i] = b[i]
        /\ (n < Len(a) /\ n < Len(b)) => a[n + 1] # b[n + 1]

\* os.path.relpath(path, start)
relpath(path, start) ==
    LET start_list == SplitPath(abspath(start))
        path_list == SplitPath(abspath(path))
        i == CommonLen(start_list, path_list)
        rel_list == [k \in 1..(Len(start_list) - i) |-> DotDot]
                    \o SubSeq(path_list, i + 1, Len(path_list))
    IN  IF rel_list = <<>> THEN Dot ELSE JoinSegs(rel_list)

\* os.path.splitext: the text before the last dot of the basename, and the
\* extension from that dot on; leading dots of the basename start no extension
splitext(p) ==
    LET base0 == LastSep(p) + 1
        dots == {i \in base0..Len(p) :
                    /\ p[i] = "."
                    /\ \E j \in base0..(i - 1) : p[j] # "."}
    IN  IF dots = {} THEN <<p, <<>>>>
        ELSE LET d == CHOOSE i \in dots : \A j \in dots : j <= i
             IN  <<SubSeq(p, 1, d - 1), SubSeq(p, d, Len(p))>>

\* sublime.packages_path()
PackagesPath == <<"/", "P", "a", "c", "k", "a", "g", "e", "s">>

-----------------------------------------------------------------------------
(* get_template_locations                                                  *)
(* A format descriptor is a record whose DOMAIN holds the keys it has.  A   *)
(* location descriptor is a function on the texts of its keys, because the *)
(* code tests a folder (a text) for membership in it; its "folders" value  *)
(* is [list |-> <<...>>] for a list, [str |-> ...] for a single string.    *)

\* the keys of a location descriptor, as text
K_format == <<"f", "o", "r", "m", "a", "t">>
K_folders == <<"f", "o", "l", "d", "e", "r", "s">>

\* d with key k set to v
DictSet(d, k, v) == [x \in DOMAIN d \cup {k} |-> IF x = k THEN v ELSE d[x]]

\* os.path.join(sublime.packages_path(), 'User', PACKAGE_NAME, TMLP_DIR)
DefaultLocation ==
    join(join(join(PackagesPath, <<"U", "s", "e", "r">>), <<"S", "u", "b", "l", "i", "m", "e", "T", "m", "p", "l">>), <<"t", "e", "m", "p", "l", "a", "t", "e", "s">>)

RECURSIVE RegisterFormatsLastWins(_, _)
\* a mutant of RegisterFormats: a later descriptor overwrites an earlier one
RegisterFormatsLastWins(formats, valid_formats) ==
    IF formats = <<>> THEN valid_formats
    ELSE LET template_format == Head(formats)
         IN  IF "id" \notin DOMAIN template_format \/ "format" \notin DOMAIN template_format
             THEN RegisterFormatsLastWins(Tail(formats), valid_formats)
             ELSE IF "replace_pattern" \notin DOMAIN template_format.format
             THEN RegisterFormatsLastWins(Tail(formats), valid_formats)
             ELSE RegisterFormatsLastWins(Tail(formats),
                      DictSet(valid_formats, template_format.id, template_format.format))

RECURSIVE RegisterFormatsAbort(_, _)
\* a mutant of RegisterFormats: the first invalid descriptor ends the loop
RegisterFormatsAbort(formats, valid_formats) ==
    IF formats = <<>> THEN valid_formats
    ELSE LET template_format == Head(formats)
         IN  IF "id" \notin DOMAIN template_format \/ "format" \notin DOMAIN template_format
             THEN valid_formats
             ELSE IF "replace_pattern" \notin DOMAIN template_format.format
             THEN valid_formats
             ELSE IF template_format.id \notin DOMAIN valid_formats
             THEN RegisterFormatsAbort(Tail(formats),
                      DictSet(valid_formats, template_format.id, template_format.format))
             ELSE RegisterFormatsAbort(Tail(formats), valid_formats)

RECURSIVE RegisterFormats(_, _)
\* the first loop: for template_format in settings.get('template_formats', [], merge=True)
RegisterFormats(formats, valid_formats) ==
    IF formats = <<>> THEN valid_formats
    ELSE LET template_format == Head(formats)
         IN  IF "id" \notin DOMAIN template_format \/ "format" \notin DOMAIN template_format
             THEN RegisterFormats(Tail(formats), valid_formats)
             ELSE IF "replace_pattern" \notin DOMAIN template_format.format
             THEN RegisterFormats(Tail(formats), valid_formats)
             ELSE IF template_format.id \notin DOMAIN valid_formats
             THEN RegisterFormats(Tail(formats),
                      DictSet(valid_formats, template_format.id, template_format.format))
             ELSE RegisterFormats(Tail(formats), valid_formats)

\* valid_formats when the first loop is over
ValidFormats(settings) ==
    RegisterFormats(MergedSettings_get(settings, "template_formats", Some(<<>>), TRUE)[1], <<>>)

\* folders = location.get('folders', default_location), a single folder made a list
FoldersOf(location) ==
    LET folders == IF K_folders \in DOMAIN location THEN location[K_folders]
                   ELSE [list |-> <<DefaultLocation>>]
    IN  IF "list" \in DOMAIN folders THEN folders.list ELSE <<folders.str>>

RECURSIVE ClaimFolders(_, _, _, _)
\* for folder in folders: if folder not in location: locations[folder] = ...
\* (the test reads the descriptor "location", not the map "locations")
ClaimFolders(folders, location, contents, locations) ==
    IF folders = <<>> THEN locations
    ELSE ClaimFolders(Tail(folders), location, contents,
                      IF Head(folders) \notin DOMAIN location
                      THEN DictSet(locations, Head(folders), contents)
                      ELSE locations)

RECURSIVE ResolveLocations(_, _, _)
\* the second loop: for location in candidates
ResolveLocations(candidates, valid_formats, locations) ==
    IF candidates = <<>> THEN locations
    ELSE LET location == Head(candidates)
         IN  IF K_format \notin DOMAIN location
             THEN ResolveLocations(Tail(candidates), valid_formats, locations)
             ELSE IF location[K_format] \notin DOMAIN valid_formats
             THEN ResolveLocations(Tail(candidates), valid_formats, locations)
             ELSE ResolveLocations(Tail(candidates), valid_formats,
                      ClaimFolders(FoldersOf(location), location,
                                   valid_formats[location[K_format]], locations))

\* candidates: the project's locations alone, or project and global merged
Candidates(settings, filterBy) ==
    IF filterBy = "project"
    THEN get_project(settings, "template_locations", Some(<<>>))[1]
    ELSE MergedSettings_get(settings, "template_locations", Some(<<>>), TRUE)[1]

\* get_template_locations(settings, filterBy='all')
get_template_locations(settings, filterBy) ==
    ResolveLocations(Candidates(settings, filterBy), ValidFormats(settings), <<>>)

-----------------------------------------------------------------------------
(* pattern % key                                                           *)

RECURSIVE FormatScan(_, _, _)
\* Python's % operator with one string argument, read left to right from
\* index i: "%s" takes the argument, "%%" is a percent sign, any other
\* conversion fails.  err: a conversion failed; slots: the "%s" seen.
FormatScan(p, arg, i) ==
    IF i > Len(p) THEN [err |-> FALSE, slots |-> 0, out |-> <<>>]
    ELSE IF p[i] # "%"
         THEN LET r == FormatScan(p, arg, i + 1)
              IN  [r EXCEPT !.out = <<p[i]>> \o @]
    ELSE IF i = Len(p) THEN [err |-> TRUE, slots |-> 0, out |-> <<>>]
    ELSE IF p[i + 1] = "%"
         THEN LET r == FormatScan(p, arg, i + 2)
              IN  [r EXCEPT !.out = <<"%">> \o @]
    ELSE IF p[i + 1] = "s"
         THEN LET r == FormatScan(p, arg, i + 2)
              IN  [r EXCEPT !.out = arg \o @, !.slots = @ + 1]
    ELSE [err |-> TRUE, slots |-> 0, out |-> <<>>]

\* pattern % arg raises unless the pattern has exactly one string slot
FormatRaises(p) ==
    LET r == FormatScan(p, <<>>, 1) IN r.err \/ r.slots # 1

\* pattern % arg, for a pattern that does not raise
Format(p, arg) == FormatScan(p, arg, 1).out

\* a mutant of get_replace_pattern: the pattern is not tried out
get_replace_pattern_unchecked(template_format) ==
    [raised  |-> FALSE,
     pattern |-> template_format.replace_pattern]

\* get_replace_pattern: the format's replace_pattern, or the exception that
\* "replace_pattern % 'test'" raises (reported with message_dialog first)
get_replace_pattern(template_format) ==
    [raised  |-> FormatRaises(template_format.replace_pattern),
     pattern |-> template_format.replace_pattern]

-----------------------------------------------------------------------------
(* create_from_template                                                    *)

ShellPattern == <<"$", "{", "%", "s", "}">>

\* the regular expression (?<!\\)\${(?!\d) matches at index i of s
EscapeMatchAt(s, i) ==
    /\ i + 1 <= Len(s)
    /\ s[i] = "$"
    /\ s[i + 1] = "{"
    /\ (i > 1 => s[i - 1] # BS)
    /\ (i + 2 <= Len(s) => s[i + 2] \notin Digits)

RECURSIVE ReSubFrom(_, _)
ReSubFrom(s, i) ==
    IF i > Len(s) THEN <<>>
    ELSE IF EscapeMatchAt(s, i)
         THEN <<BS, "$", "{">> \o ReSubFrom(s, i + 2)
         ELSE <<s[i]>> \o ReSubFrom(s, i + 1)

\* re.sub(r"(?<!\\)\${(?!\d)", '\${', line)
re_sub_escape(line) == ReSubFrom(line, 1)

RECURSIVE ReplaceAttrs(_, _, _)
\* for key in attr: line = line.replace(pattern % key, attr.get(key, ''))
ReplaceAttrs(line, pattern, attr) ==
    IF attr = <<>> THEN line
    ELSE ReplaceAttrs(str_replace(line, Format(pattern, Head(attr)[1]), Head(attr)[2]),
                      pattern, Tail(attr))

RECURSIVE ReplaceProjectVariables(_, _, _, _)
\* for key in project_variables:
\*     line = line.replace(pattern % project_variables[key], win_variables.get(key, ''))
ReplaceProjectVariables(line, pattern, win_variables, project_variables) ==
    IF project_variables = <<>> THEN line
    ELSE LET key == Head(project_variables)[1]
             var == Head(project_variables)[2]
             val == IF key \in DOMAIN win_variables THEN win_variables[key] ELSE <<>>
         IN  ReplaceProjectVariables(str_replace(line, Format(pattern, var), val),
                                     pattern, win_variables, Tail(project_variables))

\* a mutant of WriteLine: "${" is escaped whatever the pattern
WriteLineAlwaysEscape(line, pattern, attr, win_variables, project_variables) ==
    LET l1 == ReplaceAttrs(line, pattern, attr)
        l2 == IF DOMAIN win_variables # {}
              THEN ReplaceProjectVariables(l1, pattern, win_variables, project_variables)
              ELSE l1
    IN  StripCR(re_sub_escape(l2))

\* the body of create_from_template's loop: what is written for one line
WriteLine(line, pattern, attr, win_variables, project_variables) ==
    LET l1 == ReplaceAttrs(line, pattern, attr)
        l2 == IF DOMAIN win_variables # {}
              THEN ReplaceProjectVariables(l1, pattern, win_variables, project_variables)
              ELSE l1
        l3 == IF pattern = ShellPattern THEN re_sub_escape(l2) ELSE l2
    IN  StripCR(l3)

\* create_from_template(src, dest, ...): dest after every line of src is written
create_from_template(src, dest, pattern, attr, win_variables, project_variables) ==
    dest \o [i \in 1..Len(src) |->
                WriteLine(src[i], pattern, attr, win_variables, project_variables)]

-----------------------------------------------------------------------------
(* The substitution engine on bounded inputs                               *)

BracePattern == <<"{", "{", "%", "s", "}", "}">>
HashPattern == <<"#", "%", "s", "#">>

\* the valid delimiter patterns the engine is run with
Patterns == {BracePattern, ShellPattern, HashPattern}

\* words that stand between delimiters, as keys or as unknown token names
TokenWords == {<<"a">>, <<"b">>, <<"x">>}

\* free text a line is made of
TextWords == {<<"a">>, <<"1">>, <<CR>>, <<BS>>, <<"$", "{">>, <<"$", CR, "{">>}

\* a piece of a line: a token pattern % word, or free text
Segments == [tok : {TRUE}, word : TokenWords] \cup [tok : {FALSE}, word : TextWords]

SegmentText(pattern, seg) ==
    IF seg.tok THEN Format(pattern, seg.word) ELSE seg.word

\* the line a sequence of segments spells under a pattern
LineOf(pattern, segs) ==
    Flatten([i \in 1..Len(segs) |-> SegmentText(pattern, segs[i])])

SegmentLists == UNION {[1..n -> Segments] : n \in 0..MaxSegs}

AttrKeys == {<<"a">>, <<"b">>}

\* attribute values: empty, plain, the token of key b, an unescaped "${"
AttrValues(pattern) == {<<>>, <<"V">>, Format(pattern, <<"b">>), <<"$", "{">>}

\* every attribute map over AttrKeys, in every iteration order
AttrMaps(pattern) ==
    LET pairs == AttrKeys \X AttrValues(pattern)
    IN  {<<>>} \cup {<<p>> : p \in pairs}
               \cup {<<p, q>> : <<p, q>> \in {pq \in pairs \X pairs : pq[1][1] # pq[2][1]}}

\* window variables and the project's name map for them: none, or "folder"
\* bound to the token word x
WindowVariableSets ==
    {[win |-> <<>>, proj |-> <<>>],
     [win |-> [folder |-> <<"W">>], proj |-> <<<<"folder", <<"x">>>>>>]}

\* a second line that follows the chosen one in a two-line stream
SecondLine(pattern) == Format(pattern, <<"a">>) \o <<"!">>

SubstIdle == [pc |-> "idle"]
MGetIdle == [pc |-> "idle"]
RegIdle == [pc |-> "idle"]

\* the host is not part of a specification of one function alone
HostIdle ==
    /\ host = <<>>
    /\ file_cmd = <<>>
    /\ dir_cmd = <<>>
    /\ views = <<>>
    /\ disk = <<>>
    /\ log = <<>>
    /\ last = <<>>

SubstInit ==
    /\ mget = MGetIdle
    /\ reg = RegIdle
    /\ HostIdle
    /\ \E pattern \in Patterns, segs \in SegmentLists, wv \in WindowVariableSets :
         \E attr \in AttrMaps(pattern) :
            subst = [pc |-> "ready",
                     pattern |-> pattern,
                     segs |-> segs,
                     src |-> IF Len(segs) = 1
                             THEN <<LineOf(pattern, segs), SecondLine(pattern)>>
                             ELSE <<LineOf(pattern, segs)>>,
                     attr |-> attr,
                     win_variables |-> wv.win,
                     project_variables |-> wv.proj,
                     dest |-> <<>>]

\* one call of create_from_template on the chosen inputs
CreateFromTemplate ==
    /\ subst.pc = "ready"
    /\ subst' = [subst EXCEPT
          !.pc = "done",
          !.dest = create_from_template(subst.src, subst.dest, subst.pattern, subst.attr,
                                        subst.win_variables, subst.project_variables)]

SubstNext == CreateFromTemplate /\ UNCHANGED <<mget, reg>> /\ UNCHANGED hostVars

SpecSubst == SubstInit /\ [][SubstNext]_vars

-----------------------------------------------------------------------------
(* Reference definitions the engine is compared with                       *)

\* the literal text of a pattern before and after its slot
SlotMark == "\n"
PatternPrefix(p) ==
    LET f == Format(p, <<SlotMark>>)
        k == CHOOSE i \in 1..Len(f) : f[i] = SlotMark
    IN  SubSeq(f, 1, k - 1)
PatternSuffix(p) ==
    LET f == Format(p, <<SlotMark>>)
        k == CHOOSE i \in 1..Len(f) : f[i] = SlotMark
    IN  SubSeq(f, k + 1, Len(f))
DelimiterChars(p) == Chars(PatternPrefix(p)) \cup Chars(PatternSuffix(p))

\* the pattern wraps a word in an opening and a closing delimiter that share
\* no character
Bracketed(p) ==
    /\ PatternPrefix(p) # <<>>
    /\ PatternSuffix(p) # <<>>
    /\ Chars(PatternPrefix(p)) \cap Chars(PatternSuffix(p)) = {}

AttrValue(attr, key) ==
    LET i == CHOOSE k \in 1..Len(attr) : attr[k][1] = key IN attr[i][2]
HasKey(attr, key) == \E k \in 1..Len(attr) : attr[k][1] = key

\* the line is free text and complete tokens, and neither the free text, nor
\* a token's word, nor a key, nor a value holds a delimiter character
WellFormed(p, segs, attr) ==
    /\ \A i \in 1..Len(segs) : Chars(segs[i].word) \cap DelimiterChars(p) = {}
    /\ \A k \in 1..Len(attr) :
          /\ Chars(attr[k][1]) \cap DelimiterChars(p) = {}
          /\ Chars(attr[k][2]) \cap DelimiterChars(p) = {}

\* a key whose token pattern % key stands at index i of the line
KeysAt(line, p, attr, i) ==
    {k \in 1..Len(attr) : OccursAt(line, Format(p, attr[k][1]), i)}

RECURSIVE SimultaneousFrom(_, _, _, _)
\* one pass over the line: a token standing at i gives way to its value and
\* the pass goes on behind the token; any other character is copied
SimultaneousFrom(line, p, attr, i) ==
    IF i > Len(line) THEN <<>>
    ELSE IF KeysAt(line, p, attr, i) # {}
         THEN LET k == CHOOSE m \in KeysAt(line, p, attr, i) :
                          \A n \in KeysAt(line, p, attr, i) : m <= n
              IN  attr[k][2] \o
                  SimultaneousFrom(line, p, attr, i + Len(Format(p, attr[k][1])))
         ELSE <<line[i]>> \o SimultaneousFrom(line, p, attr, i + 1)

\* every token of the line replaced by its key's value, everything else kept
Simultaneous(line, p, attr) == SimultaneousFrom(line, p, attr, 1)

\* index i of s starts a "${" that no backslash precedes and no digit follows
NeedsEscape(s, i) ==
    /\ OccursAt(s, <<"$", "{">>, i)
    /\ ~OccursAt(s, <<BS>>, i - 1)
    /\ \A d \in Digits : ~OccursAt(s, <<d>>, i + 2)

\* s with a backslash put before every "${" that needs one
Escaped(s) ==
    Flatten([i \in 1..Len(s) |-> IF NeedsEscape(s, i) THEN <<BS, s[i]>> ELSE <<s[i]>>])

\* the line after the attribute and project-variable replacements
Substituted(line, p, attr, win_variables, project_variables) ==
    IF DOMAIN win_variables # {}
    THEN ReplaceProjectVariables(ReplaceAttrs(line, p, attr), p,
                                 win_variables, project_variables)
    ELSE ReplaceAttrs(line, p, attr)

-----------------------------------------------------------------------------
(* C1                                                                      *)

\* C1 as stated: with no window variables in play, every line is written as
\* the line with each token replaced by its key's value and all other text
\* unchanged apart from the removed carriage returns, whatever the pattern.
C1_AsStated ==
    (subst.pc = "done" /\ DOMAIN subst.win_variables = {}) =>
        \A i \in 1..Len(subst.src) :
            subst.dest[i] = StripCR(Simultaneous(subst.src[i], subst.pattern, subst.attr))

\* C1 (amended): for a bracketed pattern, a line of free text and complete
\* tokens, and keys, values and words free of delimiter characters, with no
\* window variables: every token of a key is written as the key's value and
\* all other text is written unchanged, apart from the removed carriage
\* returns and, under the pattern ${%s}, the escaping of the "${" that remain.
C1_TokensReplaced ==
    (/\ subst.pc = "done"
     /\ DOMAIN subst.win_variables = {}
     /\ Bracketed(subst.pattern)
     /\ WellFormed(subst.pattern, subst.segs, subst.attr)) =>
        LET expect == Simultaneous(subst.src[1], subst.pattern, subst.attr)
        IN  subst.dest[1] = StripCR(IF subst.pattern = ShellPattern
                                    THEN Escaped(expect) ELSE expect)

\* C1 witness: "a{{a}}" under {{%s}} with a -> V was written as "aV"
C1_Witness ==
    /\ subst.pc = "done"
    /\ subst.pattern = BracePattern
    /\ subst.attr = <<<<<<"a">>, <<"V">>>>>>
    /\ DOMAIN subst.win_variables = {}
    /\ subst.segs = <<[tok |-> FALSE, word |-> <<"a">>], [tok |-> TRUE, word |-> <<"a">>]>>
    /\ subst.dest = <<<<"a", "V">>>>

-----------------------------------------------------------------------------
(* C2                                                                      *)

\* C2: under the pattern ${%s} every "${" of the substituted line that no
\* backslash precedes and no digit follows is written with a backslash
\* before it (so a written line that held no carriage return has no such
\* "${" left), and a token of a key is written as the key's plain value; under
\* any other pattern the substituted line is written with no "${" escaped.
C2_ShellEscape ==
    subst.pc = "done" =>
        LET s == Substituted(subst.src[1], subst.pattern, subst.attr,
                             subst.win_variables, subst.project_variables)
            out == subst.dest[1]
        IN  /\ subst.pattern = ShellPattern =>
                /\ out = StripCR(Escaped(s))
                /\ CR \notin Chars(s) => \A i \in 1..Len(out) : ~NeedsEscape(out, i)
                /\ \A k \in 1..Len(subst.attr) :
                      (/\ subst.src[1] = Format(ShellPattern, subst.attr[k][1])
                       /\ Len(subst.attr) = 1
                       /\ DOMAIN subst.win_variables = {}
                       /\ subst.attr[k][2] \in {<<>>, <<"V">>})
                      => out = subst.attr[k][2]
            /\ subst.pattern # ShellPattern => out = StripCR(s)

\* C2 witness: "${x}${a}" under ${%s} with a -> V was written as "\${x}V"
C2_Witness ==
    /\ subst.pc = "done"
    /\ subst.pattern = ShellPattern
    /\ subst.attr = <<<<<<"a">>, <<"V">>>>>>
    /\ DOMAIN subst.win_variables = {}
    /\ subst.segs = <<[tok |-> TRUE, word |-> <<"x">>], [tok |-> TRUE, word |-> <<"a">>]>>
    /\ subst.dest = <<<<BS, "$", "{", "x", "}", "V">>>>

-----------------------------------------------------------------------------
(* MergedSettings.get on bounded inputs                                    *)

SettingNames == {"template_locations", "template_formats"}
ProjectValues == {<<>>, <<"p1">>, <<"p1", "p2">>}
GlobalValues == {<<>>, <<"g1">>}
Defaults == {None, Some(<<>>), Some(<<"d">>)}

\* every dict that holds some of the names, with values from vals
Dicts(names, vals) == UNION {[ks -> vals] : ks \in SUBSET names}

MGetInit ==
    /\ subst = SubstIdle
    /\ reg = RegIdle
    /\ HostIdle
    /\ \E g \in Dicts(SettingNames, GlobalValues), pr \in Dicts(SettingNames, ProjectValues) :
          mget = [pc |-> "ready", settings |-> [global |-> g, project |-> pr]]

\* one call settings.get(name, default, merge)
MergedGet ==
    /\ mget.pc = "ready"
    /\ \E name \in SettingNames, default \in Defaults, merge \in BOOLEAN :
          mget' = [pc |-> "done", settings |-> mget.settings, name |-> name,
                   default |-> default, merge |-> merge,
                   result |-> MergedSettings_get(mget.settings, name, default, merge)]
    /\ UNCHANGED <<subst, reg>>
    /\ UNCHANGED hostVars

MGetNext == MergedGet

SpecSettings == MGetInit /\ [][MGetNext]_vars

\* the value a layer holds for the call's name, if any
MGetProject == mget.settings.project
MGetGlobal == mget.settings.global

\* the non-merging result: the project value, else the global value, else default
MGetOverride ==
    IF mget.name \in DOMAIN MGetProject THEN Some(MGetProject[mget.name])
    ELSE IF mget.name \in DOMAIN MGetGlobal THEN Some(MGetGlobal[mget.name])
    ELSE mget.default

\* the merging result where it is defined: the project list (or the empty
\* list) followed by the global value, or by default when global has none
MGetConcat ==
    (IF mget.name \in DOMAIN MGetProject THEN MGetProject[mget.name] ELSE <<>>)
    \o (IF mget.name \in DOMAIN MGetGlobal THEN MGetGlobal[mget.name] ELSE mget.default[1])

\* C9 as stated: with merge true the result is the project list followed by
\* the global value resolved with default, whatever default is (also None,
\* wherever that concatenation is defined); with merge false it is the
\* project value, else the global value, else default.
C9_AsStated ==
    mget.pc = "done" =>
        /\ (mget.merge /\ (mget.name \in DOMAIN MGetGlobal \/ mget.default # None))
              => mget.result = Some(MGetConcat)
        /\ ~mget.merge => mget.result = MGetOverride

\* C9 (amended): with merge true and a default other than None the result is
\* the project list (or the empty list) followed by the global value resolved
\* with default, project entries first; with merge false, or with merge true
\* and default None, it is the project value if present, else the global
\* value, else default.
C9_MergedGet ==
    mget.pc = "done" =>
        /\ (mget.merge /\ mget.default # None) => mget.result = Some(MGetConcat)
        /\ (~mget.merge \/ mget.default = None) => mget.result = MGetOverride

\* C9 witness: project [p1] and global [g1] merged to [p1, g1]
C9_Witness ==
    /\ mget.pc = "done"
    /\ mget.merge
    /\ mget.default = Some(<<>>)
    /\ mget.name \in DOMAIN MGetProject
    /\ mget.name \in DOMAIN MGetGlobal
    /\ MGetProject[mget.name] = <<"p1">>
    /\ MGetGlobal[mget.name] = <<"g1">>
    /\ mget.result = Some(<<"p1", "g1">>)

-----------------------------------------------------------------------------
(* get_template_locations on bounded inputs                                *)

\* the global settings' formats: a brace format A and a shell format B
GlobalFormatA ==
    [id |-> "A", format |-> [replace_pattern |-> BracePattern, extensions |-> <<".tmpl">>]]
GlobalFormatB ==
    [id |-> "B", format |-> [replace_pattern |-> ShellPattern,
                             filename_replace_pattern |-> <<"_", "%", "s", "_">>]]
GlobalFormats == <<GlobalFormatA, GlobalFormatB>>

\* the project's formats: one that shares the id A, one of a new id C, and
\* three that miss 'id', 'format' and 'replace_pattern'
ProjectFormatPool ==
    {[id |-> "A", format |-> [replace_pattern |-> HashPattern]],
     [id |-> "C", format |-> [replace_pattern |-> BracePattern]],
     [format |-> [replace_pattern |-> BracePattern]],
     [id |-> "B"],
     [id |-> "A", format |-> [extensions |-> <<".tmpl">>]]}

\* location descriptors: of the formats A, B and C (C is known only when the
\* project declares it), with a list of folders, a single folder, no folders,
\* a folder named like a key of the descriptor, and one that misses 'format'
FolderP == <<"/", "p">>
FolderQ == <<"/", "q">>
FolderR == <<"/", "r">>
LocationPool ==
    {K_format :> "A" @@ K_folders :> [list |-> <<FolderP>>],
     K_format :> "B" @@ K_folders :> [list |-> <<FolderP, FolderQ>>],
     K_format :> "C" @@ K_folders :> [str |-> FolderQ],
     K_format :> "A",
     K_format :> "B" @@ K_folders :> [list |-> <<K_format>>],
     K_folders :> [list |-> <<FolderR>>]}

Lists(pool, n) == UNION {[1..k -> pool] : k \in 0..n}

\* the settings whose project holds the formats pf and the first k of the
\* locations ls, and whose global settings hold the other locations; a layer
\* has no key for an empty list
SettingsOf(pf, ls, k) ==
    LET pl == SubSeq(ls, 1, k)
        gl == SubSeq(ls, k + 1, Len(ls))
        Key(name, list) == IF list # <<>> THEN {name} ELSE {}
        pdict == [n \in Key("template_formats", pf) \cup Key("template_locations", pl)
                    |-> IF n = "template_formats" THEN pf ELSE pl]
        gdict == [n \in {"template_formats"} \cup Key("template_locations", gl)
                    |-> IF n = "template_formats" THEN GlobalFormats ELSE gl]
    IN  [global |-> gdict, project |-> pdict]

FilterByValues == {"all", "project"}

RegInit ==
    /\ subst = SubstIdle
    /\ mget = MGetIdle
    /\ HostIdle
    /\ \E pf \in Lists(ProjectFormatPool, MaxFormats), ls \in Lists(LocationPool, MaxLocations) :
         \E k \in 0..Len(ls) :
            reg = [pc |-> "ready", settings |-> SettingsOf(pf, ls, k)]

\* one call get_template_locations(settings, filterBy)
GetTemplateLocations ==
    /\ reg.pc = "ready"
    /\ \E filterBy \in FilterByValues :
          reg' = [pc |-> "done", settings |-> reg.settings, filterBy |-> filterBy,
                  valid_formats |-> ValidFormats(reg.settings),
                  locations |-> get_template_locations(reg.settings, filterBy)]
    /\ UNCHANGED <<subst, mget>>
    /\ UNCHANGED hostVars

RegNext == GetTemplateLocations

SpecLoc == RegInit /\ [][RegNext]_vars

-----------------------------------------------------------------------------
(* Reference definitions for the registry                                  *)

LayerList(dict, name) == IF name \in DOMAIN dict THEN dict[name] ELSE <<>>

\* the format descriptors in enumeration order: the project's, then the global ones
EnumeratedFormats(settings) ==
    LayerList(settings.project, "template_formats")
    \o LayerList(settings.global, "template_formats")

\* the location descriptors considered, in enumeration order
EnumeratedLocations(settings, filterBy) ==
    IF filterBy = "project" THEN LayerList(settings.project, "template_locations")
    ELSE LayerList(settings.project, "template_locations")
         \o LayerList(settings.global, "template_locations")

\* a format descriptor with 'id', 'format' and format.replace_pattern
IsValidFormat(tf) ==
    /\ {"id", "format"} \subseteq DOMAIN tf
    /\ "replace_pattern" \in DOMAIN tf.format

ValidIds(settings) ==
    LET fs == EnumeratedFormats(settings)
    IN  {fs[i].id : i \in {j \in 1..Len(fs) : IsValidFormat(fs[j])}}

\* the format of the valid descriptor of this id that is enumerated first
FirstFormat(settings, id) ==
    LET fs == EnumeratedFormats(settings)
        i == CHOOSE j \in 1..Len(fs) :
                /\ IsValidFormat(fs[j]) /\ fs[j].id = id
                /\ \A m \in 1..(j - 1) : ~(IsValidFormat(fs[m]) /\ fs[m].id = id)
    IN  fs[i].format

\* a location descriptor with 'format' naming a registered valid format
IsValidLocation(settings, loc) ==
    /\ K_format \in DOMAIN loc
    /\ loc[K_format] \in ValidIds(settings)

\* the folders a location descriptor lists
ListedFolders(loc) ==
    IF K_folders \notin DOMAIN loc THEN {DefaultLocation}
    ELSE IF "list" \in DOMAIN loc[K_folders]
         THEN {loc[K_folders].list[i] : i \in 1..Len(loc[K_folders].list)}
         ELSE {loc[K_folders].str}

\* the settings with every invalid format and location descriptor removed
WithoutInvalid(settings) ==
    LET KeepF(tf) == IsValidFormat(tf)
        KeepL(loc) == IsValidLocation(settings, loc)
        Clean(dict) ==
            [n \in DOMAIN dict |->
                IF n = "template_formats" THEN SelectSeq(dict[n], KeepF)
                ELSE SelectSeq(dict[n], KeepL)]
    IN  [global |-> Clean(settings.global), project |-> Clean(settings.project)]

-----------------------------------------------------------------------------
(* C6, C7, C8                                                              *)

\* C6: of several valid format descriptors with the same id, the one
\* enumerated first (the project's before the global ones) is the one
\* registered, and every folder of the location map holds the first
\* descriptor's format of the id of a location that lists it, never a later
\* descriptor's.
C6_FirstFormatWins ==
    reg.pc = "done" =>
        /\ DOMAIN reg.valid_formats = ValidIds(reg.settings)
        /\ \A id \in DOMAIN reg.valid_formats :
              reg.valid_formats[id] = FirstFormat(reg.settings, id)
        /\ \A f \in DOMAIN reg.locations :
              LET ls == EnumeratedLocations(reg.settings, reg.filterBy)
              IN  \E i \in 1..Len(ls) :
                     /\ IsValidLocation(reg.settings, ls[i])
                     /\ f \in ListedFolders(ls[i])
                     /\ reg.locations[f] = FirstFormat(reg.settings, ls[i][K_format])

\* C6 witness: the project and the global settings both declare the id A, a
\* location of A is resolved, and its folder holds the project's format
C6_Witness ==
    /\ reg.pc = "done"
    /\ "template_formats" \in DOMAIN reg.settings.project
    /\ reg.settings.project.template_formats[1] =
          [id |-> "A", format |-> [replace_pattern |-> HashPattern]]
    /\ DefaultLocation \in DOMAIN reg.locations
    /\ reg.locations[DefaultLocation] = [replace_pattern |-> HashPattern]

\* C7: a folder listed by several valid location descriptors keeps the format
\* of the descriptor enumerated first.
C7_FirstClaimKept ==
    reg.pc = "done" =>
        \A f \in DOMAIN reg.locations :
            LET ls == EnumeratedLocations(reg.settings, reg.filterBy)
                i == CHOOSE j \in 1..Len(ls) :
                        /\ IsValidLocation(reg.settings, ls[j]) /\ f \in ListedFolders(ls[j])
                        /\ \A m \in 1..(j - 1) :
                              ~(IsValidLocation(reg.settings, ls[m]) /\ f \in ListedFolders(ls[m]))
            IN  reg.locations[f] = FirstFormat(reg.settings, ls[i][K_format])

\* C8: a format descriptor that misses 'id', 'format' or replace_pattern and
\* a location descriptor that misses 'format' or names no registered format
\* contribute nothing: every folder of the map is listed by a valid location
\* and holds a valid format, and the map is the one the valid entries alone
\* resolve to.
C8_InvalidSkipped ==
    reg.pc = "done" =>
        /\ \A f \in DOMAIN reg.locations :
              /\ "replace_pattern" \in DOMAIN reg.locations[f]
              /\ LET ls == EnumeratedLocations(reg.settings, reg.filterBy)
                 IN  \E i \in 1..Len(ls) :
                        IsValidLocation(reg.settings, ls[i]) /\ f \in ListedFolders(ls[i])
        /\ reg.locations = get_template_locations(WithoutInvalid(reg.settings), reg.filterBy)

\* C8 witness: the project lists a location without 'format' before a valid
\* one and a format without 'format' of the id B; the valid location is
\* resolved to the global format B and the folder /r is not in the map
C8_Witness ==
    /\ reg.pc = "done"
    /\ reg.filterBy = "project"
    /\ "template_formats" \in DOMAIN reg.settings.project
    /\ reg.settings.project.template_formats = <<[id |-> "B"]>>
    /\ "template_locations" \in DOMAIN reg.settings.project
    /\ reg.settings.project.template_locations =
          <<K_folders :> [list |-> <<FolderR>>],
            K_format :> "B" @@ K_folders :> [list |-> <<FolderP, FolderQ>>]>>
    /\ DOMAIN reg.locations = {FolderP, FolderQ}
    /\ reg.locations[FolderP] = GlobalFormatB.format

-----------------------------------------------------------------------------
(* Settings of a template format                                           *)
(* An attr dict is a sequence of <<key, value>> pairs in insertion order.  *)

\* get_template_setting(template_format, settings, name, default)
get_template_setting(template_format, settings, name, default) ==
    DictGet(template_format, name,
            get_project(settings, name, get_global(settings, name, default)))

\* d[key] = value on an ordered dict: a present key keeps its place
AttrSet(d, key, value) ==
    IF \E i \in 1..Len(d) : d[i][1] = key
    THEN [i \in 1..Len(d) |-> IF d[i][1] = key THEN <<key, value>> ELSE d[i]]
    ELSE Append(d, <<key, value>>)

RECURSIVE AttrUpdate(_, _)
\* d.update(other)
AttrUpdate(d, other) ==
    IF other = <<>> THEN d
    ELSE AttrUpdate(AttrSet(d, Head(other)[1], Head(other)[2]), Tail(other))

\* get_attr_setting(template_format, settings)
get_attr_setting(template_format, settings) ==
    AttrUpdate(AttrUpdate(get_global(settings, "attr", Some(<<>>))[1],
                          get_project(settings, "attr", Some(<<>>))[1]),
               DictGet(template_format, "attr", Some(<<>>))[1])

\* win.extract_variables() of the host window
WindowVariables == [folder |-> <<"/", "w">>]

\* get_window_variables(template_format, settings, win): <<win_variables, project_variables>>
get_window_variables(template_format, settings) ==
    IF get_template_setting(template_format, settings, "enable_project_variables",
                            Some(FALSE))[1]
    THEN <<WindowVariables,
           get_template_setting(template_format, settings, "project_variables",
                                Some(<<>>))[1]>>
    ELSE <<<<>>, <<>>>>

K_date == <<"d", "a", "t", "e">>
K_name == <<"n", "a", "m", "e">>

\* datetime.datetime.now().strftime(dateformat): the day the command runs on
strftime(dateformat) == <<"D">>

DefaultDateFormat == <<"%", "Y", "-", "%", "m", "-", "%", "d">>

\* the date a format's templates are stamped with
DateOf(template_format, settings) ==
    strftime(get_template_setting(template_format, settings, "date_format",
                                  Some(DefaultDateFormat))[1])

-----------------------------------------------------------------------------
(* The host: settings, templates, tabs, the disk                           *)

PercentPattern == <<"%", "%", "%", "s", "%", "%">>

\* a file format with a filename and a filepath variable filled in on save
FormatA ==
    [replace_pattern |-> BracePattern,
     extensions |-> <<<<".", "t">>>>,
     attr |-> <<<<<<"a">>, <<"V">>>>>>,
     enable_file_variables_on_save |-> TRUE,
     file_variables_on_save |-> [saved_filename |-> <<"f">>, saved_filepath |-> <<"p">>]]

\* a file format whose tokens are written between percent signs
FormatP ==
    [replace_pattern |-> PercentPattern,
     extensions |-> <<<<".", "t">>>>,
     enable_file_variables_on_save |-> TRUE,
     file_variables_on_save |-> [saved_filename |-> <<"f">>]]

\* a directory format in the shell pattern, with project variables
FormatB ==
    [replace_pattern |-> ShellPattern,
     filename_replace_pattern |-> <<"_", "%", "s", "_">>,
     enable_project_variables |-> TRUE,
     project_variables |-> <<<<"folder", <<"x">>>>>>]

\* a format whose replace_pattern has no slot for the key
FormatX ==
    [replace_pattern |-> <<"{", "{", "}", "}">>,
     extensions |-> <<<<".", "t">>>>,
     filename_replace_pattern |-> <<"_", "%", "s", "_">>,
     enable_file_variables_on_save |-> TRUE]

FolderA == <<"/", "A">>
FolderB == <<"/", "B">>
FolderX == <<"/", "X">>
FolderPct == <<"/", "P">>
FolderU == <<"/", "U">>

\* SublimeTmpl.sublime-settings
HostGlobal ==
    [template_formats |->
        <<[id |-> "A", format |-> FormatA],
          [id |-> "P", format |-> FormatP],
          [id |-> "B", format |-> FormatB],
          [id |-> "X", format |-> FormatX]>>,
     template_locations |->
        <<K_format :> "A",
          K_format :> "A" @@ K_folders :> [list |-> <<FolderA>>],
          K_format :> "P" @@ K_folders :> [list |-> <<FolderPct>>],
          K_format :> "B" @@ K_folders :> [str |-> FolderB],
          K_format :> "X" @@ K_folders :> [list |-> <<FolderX>>]>>,
     attr |-> <<<<<<"d">>, <<"G">>>>>>]

\* the "SublimeTmpl" overrides of the project: none, or a location of its own
ProjectNone == <<>>
ProjectOwn ==
    [template_locations |-> <<K_format :> "B" @@ K_folders :> [list |-> <<FolderU>>]>>]
ProjectSettings == {ProjectNone, ProjectOwn}

\* the template files the file command is run on
TemplateN == <<"/", "A", "/", "s", "/", "n", ".", "p", "y", ".", "t">>
TemplateQ == <<"/", "P", "/", "q", ".", "t">>
TemplateBad == <<"/", "X", "/", "b", ".", "t">>
TemplateU == <<"/", "U", "/", "u", ".", "t">>
TemplateR == join(DefaultLocation, <<"r", ".", "t">>)
FileTemplates == {TemplateN, TemplateQ, TemplateBad, TemplateU, TemplateR}

\* the template directories the directory command is run on
TreeT3 == <<"/", "B", "/", "t", "3">>
TreeTU == <<"/", "U", "/", "t", "u">>
TreeTX == <<"/", "X", "/", "t", "x">>
DirTemplates == {TreeT3, TreeTU, TreeTX}

Placeholder == <<"_", "n", "a", "m", "e", "_">>

\* os.walk: the directories below the template directories, with their
\* subdirectories and files
TemplateTree ==
    TreeT3 :> [dirnames |-> <<<<"d">>>>, filenames |-> <<Placeholder \o <<".", "t">>>>]
    @@ join(TreeT3, <<"d">>) :> [dirnames |-> <<Placeholder \o <<"e">>>>, filenames |-> <<<<"g">>>>]
    @@ join(join(TreeT3, <<"d">>), Placeholder \o <<"e">>) :> [dirnames |-> <<>>, filenames |-> <<<<"h">>>>]
    @@ TreeTU :> [dirnames |-> <<Placeholder \o <<"C">>>>, filenames |-> <<Placeholder \o <<".", "t">>>>]
    @@ join(TreeTU, Placeholder \o <<"C">>) :> [dirnames |-> <<>>, filenames |-> <<<<"g">>>>]
    @@ TreeTX :> [dirnames |-> <<>>, filenames |-> <<<<"g">>>>]

\* the lines of a template file, by its name
LinesOf(filename) ==
    IF filename = <<"n", ".", "p", "y", ".", "t">> THEN <<<<"{", "{", "a", "}", "}", "{", "{", "f", "}", "}", "{", "{", "p", "}", "}">>>>
    ELSE IF filename = <<"q", ".", "t">> THEN <<<<"%", "f", "%", "%", "d", "%">>>>
    ELSE IF filename = <<"u", ".", "t">> THEN <<<<"$", "{", "x", "}", "$", "{", "1", "}", "$", "{", "y", "}">>>>
    ELSE IF filename = Placeholder \o <<".", "t">> THEN <<<<"$", "{", "n", "a", "m", "e", "}">>>>
    ELSE IF filename = <<"g">> THEN <<<<"$", "{", "x", "}">>>>
    ELSE <<<<"{", "{", "a", "}", "}">>>>

\* the template files on disk, with their lines
TemplateFiles ==
    [path \in FileTemplates
              \cup UNION {{join(dp, TemplateTree[dp].filenames[k]) :
                                k \in 1..Len(TemplateTree[dp].filenames)} :
                            dp \in DOMAIN TemplateTree}
        |-> LinesOf(basename(path))]

\* sublime.load_resource finds the files below the packages folder
Resources == {join(<<"P", "a", "c", "k", "a", "g", "e", "s">>, relpath(TemplateR, PackagesPath))}

\* the name and the output folder the user types, the path a tab is saved to
NameW == <<"W">>
OutputDir == <<"/", "o">>
SavePath == <<"/", "s", "/", "F">>
FolderS == <<"/", "s">>

\* what the user types into a tab: the filename tokens of both file formats
EditText == <<"{", "{", "f", "}", "}", "%", "f", "%">>

-----------------------------------------------------------------------------
(* What a command does, as a record of its effects                         *)

\* one effect the host or the user can see
Event(op, path) == [op |-> op, path |-> path]

\* a command object's attributes before set_local_settings has run
NewCommand == [settings |-> None, template_locations |-> None]

\* the MergedSettings object a command holds: the project's overrides as
\* they were when it was built, the global settings as the host has them
SettingsOfCmd(cmd) == [global |-> host.global, project |-> cmd.settings[1]]

\* set_local_settings(filterBy): each attribute is set only if the object
\* has none yet
set_local_settings(cmd, filterBy) ==
    LET s == IF cmd.settings = None THEN Some(host.project) ELSE cmd.settings
    IN  [settings |-> s,
         template_locations |->
            IF cmd.template_locations = None
            THEN Some(get_template_locations(
                          [global |-> host.global, project |-> s[1]], filterBy))
            ELSE cmd.template_locations]

\* the state of the last handler: its command, its template, the format it
\* resolved (None if it did not), whether it ended in an exception, the
\* tab it was about (0 if none) and the filterBy a run was given (None for
\* any other handler)
LastOf(cmd, template, template_format, raised) ==
    [cmd |-> cmd, template |-> template, template_format |-> template_format,
     raised |-> raised, view |-> 0, filterBy |-> None]

-----------------------------------------------------------------------------
(* SublimeTmplCommand                                                      *)

RECURSIVE FindFormat(_, _, _)
\* process_template's walk up the folders of the template, from
\* parent_directory on; child_directory is None before the first step
FindFormat(locations, parent_directory, child_directory) ==
    IF Some(parent_directory) = child_directory THEN None
    ELSE IF parent_directory \in DOMAIN locations
         THEN Some(locations[parent_directory])
         ELSE FindFormat(locations, dirname(parent_directory), Some(parent_directory))

\* is_resource_path: os.path.commonprefix compares character by character
is_resource_path(path) == OccursAt(path, PackagesPath, 1)

\* format_as_resource_path
format_as_resource_path(path) ==
    join(<<"P", "a", "c", "k", "a", "g", "e", "s">>, relpath(path, PackagesPath))

\* open(template, 'r') and fp.read(), after the events evs
OpenRead(template, evs) ==
    IF template \in DOMAIN TemplateFiles
    THEN [events |-> Append(evs, Event("open_read", template)), raised |-> FALSE,
          code |-> TemplateFiles[template]]
    ELSE [events |-> Append(evs, Event("raise", template)), raised |-> TRUE,
          code |-> <<>>]

\* get_code up to format_tag: the template is read as a resource, or, if
\* that fails or it is none, as a file (under the name it has by then)
ReadTemplate(template) ==
    IF is_resource_path(template)
    THEN LET resource == format_as_resource_path(template)
         IN  IF resource \in Resources
             THEN [events |-> <<Event("load_resource", resource)>>, raised |-> FALSE,
                   code |-> TemplateFiles[template]]
             ELSE OpenRead(resource, <<>>)
    ELSE OpenRead(template, <<>>)

\* the attr of a command: the merged attr with the date set last
AttrOf(template_format, settings) ==
    AttrSet(get_attr_setting(template_format, settings), K_date,
            DateOf(template_format, settings))

\* format_tag(code, template_format)
format_tag(code, template_format, settings) ==
    LET rp == get_replace_pattern(template_format)
        wv == get_window_variables(template_format, settings)
    IN  IF rp.raised
        THEN [events |-> <<Event("message_dialog", rp.pattern), Event("raise", rp.pattern)>>,
              raised |-> TRUE, text |-> <<>>]
        ELSE [events |-> <<>>, raised |-> FALSE,
              text |-> Flatten(create_from_template(code, <<>>, rp.pattern,
                                   AttrOf(template_format, settings), wv[1], wv[2]))]

\* the extension process_template gives the tab
ExtensionOf(template) ==
    LET basefile == splitext(basename(template))[1]
        base == splitext(basefile)[1]
        ext0 == splitext(basefile)[2]
        ext == IF ext0 = <<>> THEN base ELSE ext0
    IN  IF ext # <<>> /\ ext[1] = "." THEN Tail(ext) ELSE ext

RECURSIVE InsertSnippetFrom(_, _)
\* the text insert_snippet puts into the tab: "\$" is a dollar sign, a
\* field "${n}" is empty, everything else stands for itself
InsertSnippetFrom(s, i) ==
    IF i > Len(s) THEN <<>>
    ELSE IF s[i] = BS /\ i < Len(s) /\ s[i + 1] = "$"
         THEN <<"$">> \o InsertSnippetFrom(s, i + 2)
    ELSE IF /\ i + 3 <= Len(s)
            /\ s[i] = "$" /\ s[i + 1] = "{" /\ s[i + 2] \in Digits /\ s[i + 3] = "}"
         THEN InsertSnippetFrom(s, i + 4)
    ELSE <<s[i]>> \o InsertSnippetFrom(s, i + 1)

insert_snippet(contents) == InsertSnippetFrom(contents, 1)

\* create_tab and set_syntax: the new tab (win.new_file() makes it the
\* active view) with its settings, before set_code
create_tab(template_format, paths, ext) ==
    LET on_save == DictGet(template_format, "enable_file_variables_on_save", Some(FALSE))[1]
    IN  [content |-> <<>>,
         file_name |-> None,
         default_dir |-> IF Len(paths) = 1 THEN Some(paths[1]) ELSE None,
         default_extension |-> ext,
         tmpl_replace_pattern |->
            IF on_save THEN Some(get_replace_pattern(template_format).pattern) ELSE None,
         tmpl_file_variables_on_save |->
            IF on_save THEN DictGet(template_format, "file_variables_on_save", Some(<<>>))
            ELSE None]

\* process_template(template, dirs) of a command with these locations and
\* settings: the tabs after it, its events, the format it resolved
process_template(tabs, locations, settings, template, dirs) ==
    LET template_format == FindFormat(locations, dirname(abspath(template)), None)
        read == ReadTemplate(template)
        tag == format_tag(read.code, template_format[1], settings)
        tab == create_tab(template_format[1], dirs, ExtensionOf(template))
    IN  IF template_format = None
        THEN [tabs |-> tabs, events |-> <<Event("message_dialog", template)>>,
              template_format |-> None, raised |-> FALSE]
        ELSE IF read.raised
        THEN [tabs |-> tabs, events |-> read.events,
              template_format |-> template_format, raised |-> TRUE]
        ELSE IF tag.raised
        THEN [tabs |-> tabs, events |-> read.events \o tag.events,
              template_format |-> template_format, raised |-> TRUE]
        ELSE [tabs |-> Append(tabs, [tab EXCEPT !.content = insert_snippet(tag.text)]),
              events |-> read.events
                         \o <<Event("new_file", <<>>), Event("insert_snippet", tag.text)>>,
              template_format |-> template_format, raised |-> FALSE]

-----------------------------------------------------------------------------
(* SublimeTmplSaveFileEventListener and SublimeTmplReplaceCommand          *)

\* SublimeTmplReplaceCommand.run(edit, old, new) on a buffer holding s
sublime_tmpl_replace(s, old, new) ==
    IF s = <<>> \/ old = <<>> \/ new = <<>> THEN s ELSE str_replace(s, old, new)

\* is_applicable(settings)
is_applicable(v) == v.tmpl_replace_pattern # None

\* on_pre_save of the tab v about to be saved as filepath
on_pre_save(v, filepath) ==
    LET pattern == v.tmpl_replace_pattern[1]
        variables == IF v.tmpl_file_variables_on_save = None THEN <<>>
                     ELSE v.tmpl_file_variables_on_save[1]
        old1 == str_replace(pattern, <<"%", "s">>,
                            DictGet(variables, "saved_filepath", Some(<<>>))[1])
        old2 == str_replace(pattern, <<"%", "s">>,
                            DictGet(variables, "saved_filename", Some(<<>>))[1])
    IN  [v EXCEPT !.content = sublime_tmpl_replace(
                                  sublime_tmpl_replace(@, old1, filepath),
                                  old2, basename(filepath)),
                  !.tmpl_replace_pattern = None,
                  !.tmpl_file_variables_on_save = None]

-----------------------------------------------------------------------------
(* SublimeTmplDirectoryCommand                                             *)

RECURSIVE Ancestors(_)
\* a folder and the folders above it
Ancestors(p) == IF dirname(p) = p THEN {p} ELSE {p} \cup Ancestors(dirname(p))

\* os.path.isdir on the disk d
isdir(d, path) == normpath(path) \in d.dirs

\* os.makedirs on the disk d
makedirs(d, path) == [d EXCEPT !.dirs = @ \cup Ancestors(normpath(path))]

\* what run has worked out before it walks the template
WalkContext(template_path, template_format, settings, name, output_dir) ==
    LET wv == get_window_variables(template_format, settings)
    IN  [template_path |-> template_path,
         output_dir |-> output_dir,
         name |-> name,
         file_pattern |->
            str_replace(DictGet(template_format, "filename_replace_pattern", Some(<<>>))[1],
                        <<"%", "s">>, K_name),
         pattern |-> template_format.replace_pattern,
         attr |-> AttrSet(AttrSet(get_attr_setting(template_format, settings), K_name, name),
                          K_date, DateOf(template_format, settings)),
         win_variables |-> wv[1],
         project_variables |-> wv[2]]

\* the path the file filename of the template folder dirpath is written to
OutputFilepath(ctx, dirpath, filename) ==
    LET relativepath == relpath(str_replace(dirpath, ctx.file_pattern, ctx.name),
                                ctx.template_path)
    IN  join(join(ctx.output_dir, relativepath),
             str_replace(filename, ctx.file_pattern, ctx.name))

\* the folder made for the subfolder dirname_ of a template folder
OutputCurdir(ctx, dirname_) ==
    join(ctx.output_dir, str_replace(dirname_, ctx.file_pattern, ctx.name))

RECURSIVE CopyFiles(_, _, _, _)
\* for filename in filenames: both files are opened, the source first, and
\* the template is written through create_from_template
CopyFiles(st, ctx, dirpath, filenames) ==
    IF filenames = <<>> \/ st.raised THEN st
    ELSE LET src_filepath == join(dirpath, Head(filenames))
             output_filepath == normpath(OutputFilepath(ctx, dirpath, Head(filenames)))
             opened == Append(st.events, Event("open_read", src_filepath))
         IN  IF dirname(output_filepath) \notin st.disk.dirs \/ output_filepath \in st.disk.dirs
             THEN [st EXCEPT !.events = Append(opened, Event("raise", output_filepath)),
                             !.raised = TRUE]
             ELSE CopyFiles(
                    [st EXCEPT !.events = Append(opened, Event("open_write", output_filepath)),
                               !.disk.files =
                                  DictSet(@, output_filepath,
                                          create_from_template(TemplateFiles[src_filepath], <<>>,
                                              ctx.pattern, ctx.attr, ctx.win_variables,
                                              ctx.project_variables))],
                    ctx, dirpath, Tail(filenames))

RECURSIVE MakeChildDirs(_, _, _)
\* for dirname in dirnames: the folder is made unless it is there
MakeChildDirs(st, ctx, dirnames) ==
    IF dirnames = <<>> \/ st.raised THEN st
    ELSE LET output_curdir == OutputCurdir(ctx, Head(dirnames))
         IN  MakeChildDirs(
                IF isdir(st.disk, output_curdir) THEN st
                ELSE [st EXCEPT !.events = Append(@, Event("makedirs", normpath(output_curdir))),
                                !.disk = makedirs(@, output_curdir)],
                ctx, Tail(dirnames))

RECURSIVE Walk(_, _, _)
RECURSIVE WalkChildren(_, _, _, _)
\* os.walk(template_path), top down, with the body of run's loop
Walk(st, ctx, dirpath) ==
    IF st.raised THEN st
    ELSE LET entry == TemplateTree[dirpath]
             copied == CopyFiles(st, ctx, dirpath, entry.filenames)
             made == MakeChildDirs(copied, ctx, entry.dirnames)
         IN  WalkChildren(made, ctx, dirpath, entry.dirnames)

WalkChildren(st, ctx, dirpath, dirnames) ==
    IF dirnames = <<>> \/ st.raised THEN st
    ELSE WalkChildren(Walk(st, ctx, join(dirpath, Head(dirnames))), ctx, dirpath,
                      Tail(dirnames))

\* run(template, name, output_dir, dirs, filterBy) of a command with these
\* locations and settings on the disk d
directory_run(d, locations, settings, template, name, output_dir) ==
    LET template_path == abspath(template)
        template_format_id == dirname(template_path)
        template_format == locations[template_format_id]
        rp == get_replace_pattern(template_format)
        ctx == WalkContext(template_path, template_format, settings, name, output_dir)
        start == IF isdir(d, output_dir)
                 THEN [disk |-> d, events |-> <<>>, raised |-> FALSE]
                 ELSE [disk |-> makedirs(d, output_dir),
                       events |-> <<Event("makedirs", normpath(output_dir))>>,
                       raised |-> FALSE]
        done == Walk(start, ctx, template_path)
    IN  IF template_format_id \notin DOMAIN locations
        THEN [disk |-> d,
              events |-> <<Event("print", template_format_id), Event("print", <<>>),
                           Event("raise", template_format_id)>>,
              template_format |-> None, raised |-> TRUE]
        ELSE IF rp.raised
        THEN [disk |-> d,
              events |-> <<Event("message_dialog", rp.pattern), Event("raise", rp.pattern)>>,
              template_format |-> Some(template_format), raised |-> TRUE]
        ELSE [disk |-> done.disk, events |-> done.events,
              template_format |-> Some(template_format), raised |-> done.raised]

-----------------------------------------------------------------------------
(* The plugin in its host                                                  *)

NoCommand == LastOf("none", <<>>, None, FALSE)

Init ==
    /\ subst = SubstIdle
    /\ mget = MGetIdle
    /\ reg = RegIdle
    /\ host = [global |-> HostGlobal, project |-> ProjectNone]
    /\ file_cmd = NewCommand
    /\ dir_cmd = NewCommand
    /\ views = <<>>
    /\ disk = [dirs |-> {<<SEP>>}, files |-> <<>>]
    /\ log = <<>>
    /\ last = NoCommand

\* the project's settings are edited
ChangeSettings ==
    /\ \E p \in ProjectSettings \ {host.project} : host' = [host EXCEPT !.project = p]
    /\ log' = <<>>
    /\ last' = LastOf("settings", <<>>, None, FALSE)
    /\ UNCHANGED <<file_cmd, dir_cmd, views, disk>>
    /\ UNCHANGED pureVars

\* SublimeTmplCommand.input(args), args without a template
FileInput ==
    /\ \E filterBy \in FilterByValues : file_cmd' = set_local_settings(file_cmd, filterBy)
    /\ log' = <<>>
    /\ last' = LastOf("file_input", <<>>, None, FALSE)
    /\ UNCHANGED <<host, dir_cmd, views, disk>>
    /\ UNCHANGED pureVars

\* SublimeTmplCommand.run(edit, template, dirs, filterBy)
FileRun ==
    /\ Len(views) < MaxViews
    /\ \E template \in FileTemplates, dirs \in {<<>>, <<FolderS>>}, filterBy \in FilterByValues :
         \E cmd \in {set_local_settings(file_cmd, filterBy)} :
         \E r \in {process_template(views, cmd.template_locations[1], SettingsOfCmd(cmd),
                                    template, dirs)} :
             /\ file_cmd' = cmd
             /\ views' = r.tabs
             /\ log' = r.events
             /\ last' = [LastOf("file", template, r.template_format, r.raised)
                            EXCEPT !.filterBy = Some(filterBy)]
    /\ UNCHANGED <<host, dir_cmd, disk>>
    /\ UNCHANGED pureVars

\* SublimeTmplDirectoryCommand.input(args), args without a template: the
\* list of templates is asked for
DirInput ==
    /\ \E filterBy \in FilterByValues :
         \E cmd \in {set_local_settings(dir_cmd, filterBy)} :
             /\ dir_cmd' = cmd
             /\ log' = IF DOMAIN cmd.template_locations[1] = {}
                       THEN <<Event("message_dialog", <<>>)>> ELSE <<>>
    /\ last' = LastOf("dir_input", <<>>, None, FALSE)
    /\ UNCHANGED <<host, file_cmd, views, disk>>
    /\ UNCHANGED pureVars

\* SublimeTmplDirectoryCommand.run(template, name, output_dir, dirs, filterBy)
DirRun ==
    /\ \E template \in DirTemplates, filterBy \in FilterByValues :
         \E cmd \in {set_local_settings(dir_cmd, filterBy)} :
         \E r \in {directory_run(disk, cmd.template_locations[1], SettingsOfCmd(cmd),
                                 template, NameW, OutputDir)} :
             /\ dir_cmd' = cmd
             /\ disk' = r.disk
             /\ log' = r.events
             /\ last' = [LastOf("dir", template, r.template_format, r.raised)
                            EXCEPT !.filterBy = Some(filterBy)]
    /\ UNCHANGED <<host, file_cmd, views>>
    /\ UNCHANGED pureVars

\* the user types into a tab
Edit ==
    /\ \E i \in 1..Len(views) : views' = [views EXCEPT ![i].content = EditText]
    /\ log' = <<>>
    /\ last' = LastOf("edit", <<>>, None, FALSE)
    /\ UNCHANGED <<host, file_cmd, dir_cmd, disk>>
    /\ UNCHANGED pureVars

\* the user saves a tab: on_pre_save runs if the listener applies to the
\* tab, then the tab has its file name
Save ==
    /\ \E i \in 1..Len(views) :
         LET v == IF is_applicable(views[i]) THEN on_pre_save(views[i], SavePath)
                  ELSE views[i]
         IN  /\ views' = [views EXCEPT ![i] = [v EXCEPT !.file_name = Some(SavePath)]]
             /\ last' = [LastOf("save", <<>>, None, FALSE) EXCEPT !.view = i]
             /\ log' = IF is_applicable(views[i])
                       THEN <<Event("on_pre_save", SavePath)>> ELSE <<>>
    /\ UNCHANGED <<host, file_cmd, dir_cmd, disk>>
    /\ UNCHANGED pureVars

\* the generate commands in their host
Next ==
    \/ ChangeSettings
    \/ FileInput
    \/ FileRun
    \/ DirInput
    \/ DirRun

Spec == Init /\ [][Next]_vars

\* the tabs of the file command, typed into and saved
SaveNext ==
    \/ ChangeSettings
    \/ FileRun
    \/ Edit
    \/ Save

SpecSave == Init /\ [][SaveNext]_vars

-----------------------------------------------------------------------------
(* Reference definitions for the commands                                  *)

\* the kinds of effect among the events evs
Ops(evs) == {evs[k].op : k \in 1..Len(evs)}

\* effects that produce output: a folder, a file, a tab, text in a tab
OutputOps == {"makedirs", "open_write", "new_file", "insert_snippet"}

\* effects that read a template
ReadOps == {"open_read", "load_resource"}

\* the last handler was a generate command whose format has a replace_pattern
\* that is no format string of one string slot
PatternError(l) ==
    /\ l.cmd \in {"file", "dir"}
    /\ l.template_format # None
    /\ FormatRaises(l.template_format[1].replace_pattern)

\* the last handler was a generate command on a template that no location of
\* the command's map owns: no folder above the file, for the file command;
\* not the folder of the template directory, for the directory command
NoOwner ==
    \/ /\ last.cmd = "file"
       /\ Ancestors(dirname(abspath(last.template)))
             \cap DOMAIN file_cmd.template_locations[1] = {}
    \/ /\ last.cmd = "dir"
       /\ dirname(abspath(last.template)) \notin DOMAIN dir_cmd.template_locations[1]

\* the command object of the last handler, if it was the run of a generate
\* command
CommandOf(l) == IF l.cmd = "file" THEN file_cmd ELSE dir_cmd

\* the settings as the host has them now
CurrentSettings == [global |-> host.global, project |-> host.project]

-----------------------------------------------------------------------------
(* C3: an invalid replace_pattern                                          *)

\* C3 as stated: when the format's replace_pattern is invalid, the error is
\* shown and the command ends before any file I/O (no template is read, no
\* folder, file or tab is made) and before any substitution output.
C3_AsStated ==
    PatternError(last) =>
        /\ "message_dialog" \in Ops(log)
        /\ last.raised
        /\ Ops(log) \cap (ReadOps \cup OutputOps) = {}

\* C3, amended: a generate command whose format has an invalid replace_pattern
\* shows the error in a dialog and ends in the exception, and leaves the tabs
\* and the disk as they were; the directory command does so before any file
\* I/O, the file command after it has read the chosen template (and nothing
\* else).
C3_PatternErrorAborts ==
    [][PatternError(last') =>
          /\ views' = views
          /\ disk' = disk
          /\ last'.raised
          /\ Ops(log') \cap OutputOps = {}
          /\ log' = (IF last'.cmd = "file"
                     THEN <<Event("open_read", last'.template)>> ELSE <<>>)
                    \o <<Event("message_dialog", last'.template_format[1].replace_pattern),
                         Event("raise", last'.template_format[1].replace_pattern)>>]_vars

\* C3 witness: the file command has met an invalid pattern while the
\* directory command's output is on the disk
C3_Witness ==
    /\ PatternError(last)
    /\ last.cmd = "file"
    /\ "message_dialog" \in Ops(log)
    /\ DOMAIN disk.files # {}

-----------------------------------------------------------------------------
(* C10: a template that no location owns                                   *)

\* C10: when no registered location owns the chosen template, the command
\* ends with a message the user sees and makes no tab, folder or file; for the
\* file command and for the directory command.
C10_UnownedAborts ==
    NoOwner =>
        /\ "message_dialog" \in Ops(log)
        /\ ~last.raised
        /\ Ops(log) \cap OutputOps = {}

-----------------------------------------------------------------------------
(* C5: the output of the directory command                                 *)

\* the placeholder of a format's file names
FilePatternOf(template_format) ==
    str_replace(DictGet(template_format, "filename_replace_pattern", Some(<<>>))[1],
                <<"%", "s">>, K_name)

\* the place under output_dir that mirrors path, a path of the template
\* tree: its path from the template root, the placeholder of each segment
\* replaced by name
Mirror(path, template, template_format, name, output_dir) ==
    LET segs == SubSeq(SplitPath(path), Len(SplitPath(template)) + 1, Len(SplitPath(path)))
        named == [k \in 1..Len(segs) |->
                     str_replace(segs[k], FilePatternOf(template_format), name)]
    IN  normpath(join(output_dir, JoinSegs(named)))

\* the folders of the template tree below template, template among them
TreeFolders(template) ==
    {dp \in DOMAIN TemplateTree :
        /\ Len(SplitPath(template)) <= Len(SplitPath(dp))
        /\ SubSeq(SplitPath(dp), 1, Len(SplitPath(template))) = SplitPath(template)}

\* the files of the template tree below template
TreeFiles(template) ==
    UNION {{join(dp, TemplateTree[dp].filenames[k]) :
                k \in 1..Len(TemplateTree[dp].filenames)} :
           dp \in TreeFolders(template)}

\* C5: after the directory command has run on a template whose format it
\* resolved and whose pattern is valid, every folder and every file of the
\* template tree is under output_dir at the mirrored path, each file with its
\* substituted lines, and the command has not ended in an exception.
C5_TreeMirrored ==
    (last.cmd = "dir" /\ last.template_format # None /\ ~PatternError(last)) =>
        LET tf == last.template_format[1]
            ctx == WalkContext(abspath(last.template), tf, SettingsOfCmd(dir_cmd),
                               NameW, OutputDir)
        IN  /\ ~last.raised
            /\ \A dp \in TreeFolders(last.template) :
                   Mirror(dp, last.template, tf, NameW, OutputDir) \in disk.dirs
            /\ \A f \in TreeFiles(last.template) :
                   /\ Mirror(f, last.template, tf, NameW, OutputDir) \in DOMAIN disk.files
                   /\ disk.files[Mirror(f, last.template, tf, NameW, OutputDir)]
                        = create_from_template(TemplateFiles[f], <<>>, ctx.pattern, ctx.attr,
                                               ctx.win_variables, ctx.project_variables)

-----------------------------------------------------------------------------
(* C4: the pass on save                                                    *)

\* the token of a variable of the tab v: the pattern with the variable's
\* name in its slot; None if the tab has no such variable
TokenOf(v, variable) ==
    IF v.tmpl_file_variables_on_save = None
       \/ variable \notin DOMAIN v.tmpl_file_variables_on_save[1]
    THEN None
    ELSE Some(Format(v.tmpl_replace_pattern[1], v.tmpl_file_variables_on_save[1][variable]))

\* s with the token (if any) replaced by new
WithToken(s, token, new) == IF token = None THEN s ELSE str_replace(s, token[1], new)

\* C4: a save of a tab that carries a pending pattern replaces the tab's
\* filepath and filename tokens and clears the two settings; a save of a tab
\* that carries none (so every later save) leaves the text as it is.
C4_SavePass ==
    [][\A i \in 1..Len(views) :
          (last'.cmd = "save" /\ last'.view = i) =>
              IF views[i].tmpl_replace_pattern # None
              THEN /\ views'[i].content =
                         WithToken(WithToken(views[i].content,
                                             TokenOf(views[i], "saved_filepath"), SavePath),
                                   TokenOf(views[i], "saved_filename"), basename(SavePath))
                   /\ views'[i].tmpl_replace_pattern = None
                   /\ views'[i].tmpl_file_variables_on_save = None
              ELSE views'[i].content = views[i].content]_vars

-----------------------------------------------------------------------------
(* C11: the settings and the location map of an invocation                 *)

\* C11: after every run of a generate command, whatever was invoked on the
\* same command object before, the settings the command used are the ones
\* the host has at that invocation and its location map is the one resolved
\* from them under that invocation's filterBy (only the project's locations
\* for "project", the merged global and project locations otherwise).
C11_FreshPerInvocation ==
    last.cmd \in {"file", "dir"} =>
        /\ CommandOf(last).settings = Some(host.project)
        /\ CommandOf(last).template_locations
              = Some(get_template_locations(CurrentSettings, last.filterBy[1]))

=============================================================================
